---- MODULE Spec2Model ----
(***************************************************************************)
(* Model of the bilingual university intake form (RegisterAlo).            *)
(*                                                                         *)
(* State: the language held by LanguageProvider, what Home has mounted,    *)
(* the DOM state of the mounted (uncontrolled) form, the developer console *)
(* and the host's print facility.  One action per user event or handler.   *)
(*                                                                         *)
(* Strings are ASCII here: the Arabic texts of UniversityIntakeForm.tsx    *)
(* are written in Latin transliteration, one distinct string per distinct  *)
(* source string; the department "IT" is the same string in both variants, *)
(* as it is in the source.                                                 *)
(***************************************************************************)
EXTENDS Naturals, Sequences, FiniteSets, TLC

VARIABLES
    provider,    \* TRUE iff the rendered tree wraps Home in LanguageProvider
    language,    \* useState value of LanguageProvider
    hook,        \* what useLanguage gave Home at its last render
    mounted,     \* the form components Home has mounted
    values,      \* DOM value of every text-like control of the mounted form
    boxes,       \* the checked checkboxes, in the order the user checked them
    radios,      \* the checked radios, as <<name, value>>
    consoleLog,  \* console.log calls made so far
    host,        \* the host environment the page runs in
    printCalls,  \* how many times the host print facility was invoked
    error,       \* the last uncaught error, NoError if none
    navigations, \* how many times the page was navigated away from
    lastCall,    \* history: argument of the latest setLanguage call
    renders,     \* history: what was shown at the latest language switches
    discarded,   \* history: what the forms unmounted so far held
    steps        \* number of events so far

\* the state of the program
appVars == <<provider, language, hook, mounted, values, boxes, radios,
             consoleLog, host, printCalls, error, navigations>>

vars == <<appVars, lastCall, renders, discarded, steps>>

----------------------------------------------------------------------------
(* Bounds of the exploration. *)

\* at most this many events (clicks, edits, submissions) in a behaviour
MaxSteps == 3
\* the user types into the first MaxText text-like controls of the form and
\* into its first MaxText language percentages
MaxText == 1
\* the user ticks among the first MaxBoxes checkboxes of the form
MaxBoxes == 2
\* the user selects in the first MaxRadio radio groups of the form
MaxRadio == 2

----------------------------------------------------------------------------
(* Small helpers. *)

Range(s) == {s[i] : i \in DOMAIN s}

Min(a, b) == IF a < b THEN a ELSE b

RECURSIVE Concat(_)
Concat(ss) == IF ss = <<>> THEN <<>> ELSE Head(ss) \o Concat(Tail(ss))

Prefix(s, n) == SubSeq(s, 1, Min(n, Len(s)))

----------------------------------------------------------------------------
(* LanguageContext: AppLanguage, the context value and the hook. *)

AppLanguage == {"ar", "en"}

\* createContext<LanguageContextValue | undefined>(undefined)
Undefined == [defined |-> FALSE, language |-> "undefined"]

NoError == "none"

ProviderError == "useLanguage must be used within a LanguageProvider"

\* useState<AppLanguage>('ar')
InitialLanguage == "ar"

\* the value a consumer finds in LanguageContext
LanguageContext(hasProvider, lang) ==
    IF hasProvider THEN [defined |-> TRUE, language |-> lang] ELSE Undefined

useLanguageUnchecked(ctx) == [threw |-> FALSE, value |-> ctx]

\* if (!ctx) throw new Error(...); return ctx
useLanguage(ctx) ==
    IF ~ctx.defined THEN [threw |-> TRUE, value |-> Undefined]
    ELSE [threw |-> FALSE, value |-> ctx]

----------------------------------------------------------------------------
(* The option lists of the two form variants, in source order. *)

\* the form component Home mounts for a language
Variant == [ar |-> "UniversityIntakeForm", en |-> "UniversityIntakeFormEn"]

Goals ==
    [ar |-> <<"taqlil daght al-muwazzafin", "raf jawdat al-khidma",
              "tawaffur 24/7", "taqlil waqt al-intizar", "tawhid al-rudud">>,
     en |-> <<"Reduce staff workload", "Improve service quality",
              "24/7 availability", "Reduce waiting time",
              "Standardize responses">>]

Depts ==
    [ar |-> <<"al-qabul", "al-maliyya", "shuun al-talaba",
              "al-dirasat al-ulya", "al-alaqat al-amma", "khidmat al-mujtama",
              "shuun al-muwazzafin", "IT", "al-maktaba", "al-imtihanat",
              "al-marafiq", "al-amn wal-salama", "al-iyada al-tibbiyya",
              "markaz al-istisharat", "markaz al-lughat", "markaz al-tadrib",
              "markaz al-tawzif", "markaz al-ibtikar", "markaz al-jawda",
              "markaz al-bahth al-ilmi">>,
     en |-> <<"Admissions", "Finance", "Student Affairs", "Graduate Studies",
              "Public Relations", "Community Service", "HR / Staff Affairs",
              "IT", "Library", "Examinations", "Facilities",
              "Security & Safety", "Clinic / Medical Center",
              "Advisory Center", "Language Center", "Training Center",
              "Career Center", "Innovation Center", "Quality Center",
              "Research Center">>]

LangsUnsynchronized ==
    [ar |-> <<"al-arabiyya", "al-injliziyya", "al-faransiyya",
              "al-turkiyya", "al-hindiyya", "al-urdiyya">>,
     en |-> <<"Arabic", "English", "French", "Turkish", "Hindi">>]

Langs ==
    [ar |-> <<"al-arabiyya", "al-injliziyya", "al-faransiyya",
              "al-turkiyya", "al-hindiyya", "al-urdiyya">>,
     en |-> <<"Arabic", "English", "French", "Turkish", "Hindi", "Urdu">>]

Channels ==
    [ar |-> <<"sawt faqat (IVR dhaki)", "sawt + SMS", "sawt + WhatsApp",
              "sawt + Email", "sawt + bawwaba iliktruniyya / Chat Widget">>,
     en |-> <<"Voice only (smart IVR)", "Voice + SMS", "Voice + WhatsApp",
              "Voice + Email", "Voice + Web portal / Chat widget">>]

Scenarios ==
    [ar |-> <<"rusum / sadad / mutaakhkhirat",
              "tasjil mawadd / hadhf wa-idafa", "qabul / halat talab",
              "mutabaat muamala / raqm talab", "talab shahada / ifada",
              "mawaid (iyada/istisharat/muqabalat)",
              "imtihanat / jadawil / qaat", "shakawa / tasid",
              "dam fanni (L1)">>,
     en |-> <<"Fees / Payments / Overdues",
              "Course registration / Add & Drop",
              "Admissions / Application status",
              "Follow-up on a request / ticket", "Certificates / Letters",
              "Appointments (clinic / advisory / interviews)",
              "Exams / schedules / halls", "Complaints / escalation",
              "Technical support (L1)">>]

KbItems ==
    [ar |-> <<"al-asila al-shaia FAQ", "dalil al-talib",
              "al-taqwim al-akadimi", "shurut al-qabul", "al-rusum al-dirasiyya",
              "al-baramij al-akadimiyya", "al-siyasat wal-lawaih",
              "dalil al-muwazzafin", "rawabit al-anzima">>,
     en |-> <<"FAQ", "Student handbook", "Academic calendar",
              "Admission requirements", "Tuition fees", "Academic programs",
              "Policies and regulations", "Staff directory", "System links">>]

\* <FormSection title=...>, the thirteen sections in document order
SectionTitles ==
    [ar |-> <<"1) malumat amma", "2) al-hadaf min al-mashru",
              "3) al-aqsam al-matluba + hajm al-mukalamat li-kull qism",
              "4) hajm al-mukalamat al-kulli", "5) al-lughat al-matluba",
              "6) naw al-qanawat al-matluba",
              "7) sinaryuhat al-mukalamat (Use Cases)",
              "8) al-bayanat al-mutaha li-taghdhiyat al-nizam (Knowledge Base)",
              "9) al-anzima al-mawjuda dakhil al-jamia (Integrations)",
              "10) salahiyyat al-wusul wal-quyud al-amniyya",
              "11) asilat tasir asasiyya",
              "12) tajribat al-mustakhdim (Voice & Flow)",
              "13) mulahazat idafiyya">>,
     en |-> <<"1) General Information", "2) Project Objective",
              "3) Required Departments + Call Volume per Department",
              "4) Overall Call Volume", "5) Required Languages",
              "6) Required Channels", "7) Call Scenarios (Use Cases)",
              "8) Available Data for Knowledge Base",
              "9) Existing University Systems (Integrations)",
              "10) Access and Security Constraints",
              "11) Basic Pricing Questions",
              "12) User Experience (Voice & Flow)",
              "13) Additional Notes">>]

\* <Field label=...> of section 1, then the option-derived labels of
\* sections 5 (`${lang} (%)`) and 8 (label={item})
FieldLabels ==
    [v \in AppLanguage |->
        (IF v = "ar"
         THEN <<"ism al-jamia", "al-madina / al-dawla",
                "ism al-shakhs al-masul", "al-musamma al-wazifi",
                "raqm al-tawasul", "al-barid al-iliktruni",
                "afdal waqt lil-tawasul",
                "hal yujad mawid nihai li-istilam al-ard? (tarikh)">>
         ELSE <<"University name", "City / Country", "Contact person name",
                "Job title", "Phone number", "Email", "Best time to contact",
                "Deadline to receive proposal (date)">>)
        \o [i \in 1..Len(Langs[v]) |-> Langs[v][i] \o " (%)"]
        \o KbItems[v]]

----------------------------------------------------------------------------
(* The controls of a form variant, in document order. *)

TextKinds == {"text", "tel", "email", "date", "number", "textarea"}

\* the fields the form marks required: <Field label=... required>
RequiredFields ==
    {"universityName", "cityCountry", "contactName", "jobTitle", "phone",
     "email"}

InputRequired(n, k) ==
    <<[name |-> n, kind |-> k, value |-> "", hasMin |-> FALSE,
       hasMax |-> FALSE, required |-> n \in RequiredFields]>>

\* <input name=... type=...> and <textarea name=...>; the required prop of
\* Field only draws the " *" of the label, the control has no such attribute
Input(n, k) ==
    <<[name |-> n, kind |-> k, value |-> "", hasMin |-> FALSE,
       hasMax |-> FALSE, required |-> FALSE]>>

\* <input type="number" min={0}>, with max={100} when it is a percentage
Number(n, percent) ==
    <<[name |-> n, kind |-> "number", value |-> "", hasMin |-> TRUE,
       hasMax |-> percent, required |-> FALSE]>>

\* <input type="checkbox" name=... value=...>
Checkbox(n, v) ==
    <<[name |-> n, kind |-> "checkbox", value |-> v, hasMin |-> FALSE,
       hasMax |-> FALSE, required |-> FALSE]>>

\* <input type="radio" name=... value=...>
Radio(n, v) ==
    <<[name |-> n, kind |-> "radio", value |-> v, hasMin |-> FALSE,
       hasMax |-> FALSE, required |-> FALSE]>>

\* the two radios of a YesNoGroup
YesNoGroup(n) == Radio(n, "yes") \o Radio(n, "no")

Section1 ==
    Input("universityName", "text") \o Input("cityCountry", "text")
    \o Input("contactName", "text") \o Input("jobTitle", "text")
    \o Input("phone", "tel") \o Input("email", "email")
    \o Input("bestTimeToContact", "text") \o Input("deadline", "date")

Section2(v) ==
    Concat([i \in 1..Len(Goals[v]) |-> Checkbox("projectGoals", Goals[v][i])])
    \o Radio("callcenterScope", "full-replacement")
    \o Radio("callcenterScope", "assistant")
    \o Input("mvpScope", "textarea")

Section3Indexed(v) ==
    Concat([i \in 1..Len(Depts[v]) |->
               Number("dept-" \o ToString(i) \o "-daily", FALSE)
               \o Number("dept-" \o ToString(i) \o "-offhours", TRUE)])
    \o Input("otherDepartments", "textarea")

Section3(v) ==
    Concat([i \in 1..Len(Depts[v]) |->
               Number("dept-" \o Depts[v][i] \o "-daily", FALSE)
               \o Number("dept-" \o Depts[v][i] \o "-offhours", TRUE)])
    \o Input("otherDepartments", "textarea")

Section4 ==
    Number("totalDailyCalls", FALSE) \o Number("peakDailyCalls", FALSE)
    \o Input("peakHours", "text") \o Number("currentAgents", FALSE)
    \o Number("avgCallDuration", FALSE) \o Number("missedCallsPercent", TRUE)

Section5OneName(v) ==
    Concat([i \in 1..Len(Langs[v]) |-> Number("lang-percent", TRUE)])
    \o Input("otherLanguageName", "text")
    \o Number("otherLanguagePercent", TRUE)

Section5(v) ==
    Concat([i \in 1..Len(Langs[v]) |-> Number("lang-" \o Langs[v][i], TRUE)])
    \o Input("otherLanguageName", "text")
    \o Number("otherLanguagePercent", TRUE)

Section6(v) ==
    Concat([i \in 1..Len(Channels[v]) |-> Checkbox("channels", Channels[v][i])])
    \o Input("channelsOther", "text") \o Input("numbersPreference", "text")

Section7(v) ==
    Concat([i \in 1..Len(Scenarios[v]) |->
               Checkbox("scenarios", Scenarios[v][i])
               \o YesNoGroup("scenario-" \o Scenarios[v][i] \o "-identity")])
    \o Input("otherScenarios", "textarea")
    \o Input("scenariosDetails", "textarea")

Section8(v) ==
    Concat([i \in 1..Len(KbItems[v]) |-> YesNoGroup("kb-" \o KbItems[v][i])])
    \o YesNoGroup("kb-files-exist") \o Number("kb-files-count", FALSE)
    \o Input("kb-other", "textarea") \o Input("kb-languageUpdate", "text")

Section9 ==
    Input("systems-academic", "text") \o Input("systems-callcenter", "text")
    \o Input("systems-crm", "text") \o Input("systems-other", "textarea")

Section10 ==
    YesNoGroup("security-api") \o YesNoGroup("security-webhooks")
    \o YesNoGroup("security-readonly-db") \o YesNoGroup("security-sso")
    \o Input("security-constraints", "textarea")

Section11 ==
    Input("pricing-deployment", "text") \o Number("pricing-campuses", FALSE)
    \o YesNoGroup("pricing-247")
    \o Number("pricing-escalation-percent", TRUE)
    \o Input("pricing-recording", "text") \o YesNoGroup("pricing-dashboard")
    \o YesNoGroup("pricing-sla")

Section12 ==
    YesNoGroup("ux-greeting-script") \o Input("ux-voice-type", "text")
    \o Input("ux-ivr-type", "text") \o YesNoGroup("ux-ticket-number")

Section13 == Input("additional-notes", "textarea")

\* the thirteen <FormSection> of the <form>, in document order
Sections ==
    [v \in AppLanguage |->
        <<Section1, Section2(v), Section3(v), Section4, Section5(v),
          Section6(v), Section7(v), Section8(v), Section9, Section10,
          Section11, Section12, Section13>>]

\* every named control of the <form>, in document order
FormControls == [v \in AppLanguage |-> Concat(Sections[v])]

OfKind(v, kinds) == SelectSeq(FormControls[v], LAMBDA c : c.kind \in kinds)

\* names of the text-like controls, in document order
TextNames ==
    [v \in AppLanguage |->
        [i \in 1..Len(OfKind(v, TextKinds)) |-> OfKind(v, TextKinds)[i].name]]

CheckboxGroups == <<"projectGoals", "channels", "scenarios">>

\* the checkboxes as <<name, value>>, in document order
Checkboxes ==
    [v \in AppLanguage |->
        [i \in 1..Len(OfKind(v, {"checkbox"})) |->
            <<OfKind(v, {"checkbox"})[i].name, OfKind(v, {"checkbox"})[i].value>>]]

\* names of the radio groups, in document order
RadioNames ==
    [v \in AppLanguage |->
        LET rs == OfKind(v, {"radio"})
            first == SelectSeq([i \in 1..Len(rs) |-> i],
                               LAMBDA i : \A j \in 1..(i - 1) :
                                              rs[j].name # rs[i].name)
        IN  [i \in 1..Len(first) |-> rs[first[i]].name]]

\* the values offered by each radio group
RadioOptions ==
    [v \in AppLanguage |->
        [g \in Range(RadioNames[v]) |->
            {c.value : c \in {d \in Range(FormControls[v]) :
                                  d.kind = "radio" /\ d.name = g}}]]

\* the names of the language percentage fields, in document order
PercentNames ==
    [v \in AppLanguage |-> [i \in 1..Len(Langs[v]) |-> "lang-" \o Langs[v][i]]]

----------------------------------------------------------------------------
(* Home: reads the language through the hook and mounts one form. *)

HomeBothForms(ctx) ==
    LET r == useLanguage(ctx)
    IN  [hook |-> r,
         mounted |-> IF r.threw THEN {} ELSE {Variant.ar, Variant.en},
         error |-> IF r.threw THEN ProviderError ELSE NoError]

HomeStale(ctx) ==
    LET r == useLanguage(ctx)
    IN  [hook |-> r,
         mounted |-> IF r.threw THEN {}
                     ELSE IF language = "en" \/ r.value.language = "en"
                          THEN {Variant.en} ELSE {Variant.ar},
         error |-> IF r.threw THEN ProviderError ELSE NoError]

\* const { language } = useLanguage(); isArabic = language === 'ar';
\* {isArabic ? <UniversityIntakeForm /> : <UniversityIntakeFormEn />}
\* An error thrown while rendering is not caught: nothing stays mounted.
Home(ctx) ==
    LET r == useLanguage(ctx)
        isArabic == r.value.language = "ar"
    IN  [hook |-> r,
         mounted |-> IF r.threw THEN {}
                     ELSE IF isArabic THEN {Variant.ar} ELSE {Variant.en},
         error |-> IF r.threw THEN ProviderError ELSE NoError]

HighlightedSame(isArabic) == IF isArabic THEN {"ar", "en"} ELSE {}

\* the switcher buttons drawn highlighted: the 'ar' button when isArabic,
\* the 'en' button when !isArabic
Highlighted(isArabic) ==
    {b \in AppLanguage : IF b = "ar" THEN isArabic ELSE ~isArabic}

\* the <h1> of the page, in each language
Heading ==
    [ar |-> "namudhaj jam malumat mashru al-musaid al-dhaki al-jamii",
     en |-> "University Smart Assistant Project Intake Form"]

\* {isArabic ? <h1>(Arabic)</h1> : <h1>(English)</h1>}
HeadingOf(isArabic) == IF isArabic THEN Heading.ar ELSE Heading.en

\* <form dir="rtl"> of UniversityIntakeForm, <form dir="ltr"> of the other
Dir == [UniversityIntakeForm |-> "rtl", UniversityIntakeFormEn |-> "ltr"]

\* what Home drew, at its last render, around the form
Page ==
    [highlighted |-> Highlighted(hook.value.language = "ar"),
     heading |-> HeadingOf(hook.value.language = "ar"),
     dirs |-> {Dir[f] : f \in mounted}]

\* the language whose form variant is in the DOM
FormLang == IF Variant.ar \in mounted THEN "ar" ELSE "en"

\* a form is on the page
HasForm == mounted # {}

\* the DOM state of a freshly mounted form: no defaultValue, no checked
FreshValues == [v \in AppLanguage |-> [n \in Range(TextNames[v]) |-> ""]]

FreshRadios == [v \in AppLanguage |-> {}]

\* what the page shows of the mounted forms: section titles and field labels
Rendered ==
    {[titles |-> SectionTitles[v], labels |-> FieldLabels[v], form |-> Variant[v]] :
        v \in {w \in AppLanguage : Variant[w] \in mounted}}

----------------------------------------------------------------------------
(* handleSubmit: FormData of the form, folded into a plain object. *)

IncludedAll(c, bx, rd) == TRUE

\* a control contributes an entry unless it is an unchecked checkbox/radio
Included(c, bx, rd) ==
    CASE c.kind = "checkbox" -> <<c.name, c.value>> \in Range(bx)
      [] c.kind = "radio" -> <<c.name, c.value>> \in rd
      [] OTHER -> TRUE

EntryValueBlank(c, vals) == ""

\* the value of a control's entry: the option value, or the typed text
EntryValue(c, vals) ==
    IF c.kind \in {"checkbox", "radio"} THEN c.value ELSE vals[c.name]

FormDataSkippingEmpty(v, vals, bx, rd) ==
    LET cs == FormControls[v]
        idx == SelectSeq([i \in 1..Len(cs) |-> i],
                         LAMBDA i : /\ Included(cs[i], bx, rd)
                                    /\ EntryValue(cs[i], vals) # "")
    IN  [j \in 1..Len(idx) |-> <<cs[idx[j]].name, EntryValue(cs[idx[j]], vals)>>]

\* new FormData(form): the entry list, in tree order of the controls
FormData(v, vals, bx, rd) ==
    LET cs == FormControls[v]
        idx == SelectSeq([i \in 1..Len(cs) |-> i],
                         LAMBDA i : Included(cs[i], bx, rd))
    IN  [j \in 1..Len(idx) |-> <<cs[idx[j]].name, EntryValue(cs[idx[j]], vals)>>]

AssignedFirst(entries, key) ==
    LET first == CHOOSE i \in DOMAIN entries :
                     /\ entries[i][1] = key
                     /\ \A j \in 1..(i - 1) : entries[j][1] # key
    IN  entries[first][2]

\* data[key] = value, run for every entry named key in turn: each
\* assignment overwrites the one before, the last one stays
Assigned(entries, key) ==
    LET last == CHOOSE i \in DOMAIN entries :
                    /\ entries[i][1] = key
                    /\ \A j \in (i + 1)..Len(entries) : entries[j][1] # key
    IN  entries[last][2]

\* formData.forEach((value, key) => { data[key] = value }): the object the
\* loop leaves, a key for every entry name, the others as they were in data
forEach(entries, data) ==
    LET keys == {entries[i][1] : i \in DOMAIN entries}
    IN  [k \in keys \cup DOMAIN data |->
            IF k \in keys THEN Assigned(entries, k) ELSE data[k]]

SubmitLabel ==
    [ar |-> "Submitted intake form:", en |-> "Submitted intake form (EN):"]

handleSubmitNoPrevent == <<"new FormData", "formData.forEach", "console.log">>

\* the calls handleSubmit makes, in the order of its statements
handleSubmitCalls ==
    <<"event.preventDefault", "new FormData", "formData.forEach", "console.log">>

handleSubmitAccumulating(v, vals, bx, rd) ==
    [label |-> SubmitLabel[v],
     data |-> forEach(FormData(v, vals, bx, rd),
                      IF consoleLog = <<>> THEN <<>>
                      ELSE consoleLog[Len(consoleLog)].data)]

\* const data = {} ... console.log(label, data): the record handleSubmit
\* builds, starting from an empty object, and logs
handleSubmit(v, vals, bx, rd) ==
    [label |-> SubmitLabel[v], data |-> forEach(FormData(v, vals, bx, rd), <<>>)]

----------------------------------------------------------------------------
(* The constraints the attributes of the controls declare.  The <form> has  *)
(* no noValidate: a submission requested interactively is validated first.  *)

\* the strings the user types into a text field
Strings == {"Future University"}

\* the strings the user types into a number field, and the numbers they are
Numerals == {"50", "150"}

NumberOf == [s \in Numerals |-> IF s = "50" THEN 50 ELSE 150]

InRangeAlways(c, vals) == TRUE

\* min={0} and max={100} of a number control, on a value that is not empty
InRange(c, vals) ==
    \/ c.kind # "number"
    \/ vals[c.name] = ""
    \/ /\ c.hasMin => NumberOf[vals[c.name]] >= 0
       /\ c.hasMax => NumberOf[vals[c.name]] <= 100

\* a control with the required attribute and nothing in it
Missing(c, vals) == c.required /\ c.kind \in TextKinds /\ vals[c.name] = ""

\* the names of the controls that fail their constraints
Invalid(v, vals) ==
    {FormControls[v][i].name :
        i \in {j \in DOMAIN FormControls[v] :
                  \/ ~InRange(FormControls[v][j], vals)
                  \/ Missing(FormControls[v][j], vals)}}

----------------------------------------------------------------------------
(* handlePrintAsPdf and the host. *)

\* no window object; window.print works; window has no print; print throws
Hosts == {"no-window", "print-ok", "print-missing", "print-throws"}

PrintMissingError == "TypeError: window.print is not a function"

PrintFailedError == "window.print threw"

\* if (typeof window !== 'undefined') { window.print() }
handlePrintAsPdf(h) ==
    CASE h = "no-window" -> [calls |-> 0, error |-> NoError]
      [] h = "print-ok" -> [calls |-> 1, error |-> NoError]
      [] h = "print-missing" -> [calls |-> 0, error |-> PrintMissingError]
      [] h = "print-throws" -> [calls |-> 1, error |-> PrintFailedError]

----------------------------------------------------------------------------
(* The state machine. *)

\* DOM events need a window; without one only the handlers can be called
Interactive == HasForm /\ host # "no-window"

\* the controls the user touches
TypedNames ==
    Range(Prefix(TextNames[FormLang], MaxText))
    \cup Range(Prefix(PercentNames[FormLang], MaxText))

\* what can be typed into a control
Typable(n) ==
    IF n \in Range(PercentNames[FormLang]) THEN Numerals ELSE Strings

TickedBoxes == Range(Prefix(Checkboxes[FormLang], MaxBoxes))

SelectedGroups == Range(Prefix(RadioNames[FormLang], MaxRadio))

NoCall == "none"

\* the section titles and field labels on the page
Shown == {[titles |-> r.titles, labels |-> r.labels] : r \in Rendered}

\* the name and value of every control of the mounted form that holds one
Entered ==
    {<<n, values[n]>> : n \in {m \in DOMAIN values : values[m] # ""}}
    \cup Range(boxes) \cup radios

\* the latest three entries of a history
Latest(h) == IF Len(h) > 3 THEN Tail(h) ELSE h

\* the first render of the tree: <LanguageProvider> (or not) around <Home />
InitTree(p) ==
    LET h == Home(LanguageContext(p, InitialLanguage))
    IN  /\ provider = p
        /\ language = IF p THEN InitialLanguage ELSE Undefined.language
        /\ hook = h.hook
        /\ mounted = h.mounted
        /\ error = h.error
        /\ values = IF h.mounted = {} THEN <<>> ELSE FreshValues[InitialLanguage]
        /\ radios = FreshRadios[InitialLanguage]
        /\ boxes = <<>>
        /\ consoleLog = <<>>
        /\ host \in Hosts
        /\ printCalls = 0
        /\ navigations = 0
        /\ lastCall = NoCall
        /\ renders = <<Shown>>
        /\ discarded = {}
        /\ steps = 0

InitOutsideProvider == InitTree(FALSE)

\* App.tsx: Home is rendered inside LanguageProvider
Init == InitTree(TRUE)

\* Home rendered in either tree, with or without an enclosing provider
InitHook == \E p \in BOOLEAN : InitTree(p)

SetLanguageIgnored(l) == UNCHANGED appVars

SetLanguagePartial(l) ==
    IF l = language
    THEN UNCHANGED appVars
    ELSE /\ language' = l
         /\ UNCHANGED <<provider, hook, mounted, values, boxes, radios,
                        consoleLog, host, printCalls, error, navigations>>

SetLanguageKeeping(l) ==
    IF l = language
    THEN UNCHANGED appVars
    ELSE LET h == Home(LanguageContext(provider, l))
         IN  /\ language' = l
             /\ hook' = h.hook
             /\ mounted' = h.mounted
             /\ UNCHANGED <<provider, values, boxes, radios, consoleLog, host,
                            printCalls, error, navigations>>

SetLanguageRemounting(l) ==
    LET h == Home(LanguageContext(provider, l))
    IN  /\ language' = l
        /\ hook' = h.hook
        /\ mounted' = h.mounted
        /\ values' = FreshValues[l]
        /\ radios' = FreshRadios[l]
        /\ boxes' = <<>>
        /\ UNCHANGED <<provider, consoleLog, host, printCalls, error,
                       navigations>>

\* setLanguage(l): a state update with the same value is dropped; otherwise
\* Home renders again and swaps the form, whose DOM state starts afresh
SetLanguage(l) ==
    IF l = language
    THEN UNCHANGED appVars
    ELSE LET h == Home(LanguageContext(provider, l))
         IN  /\ language' = l
             /\ hook' = h.hook
             /\ mounted' = h.mounted
             /\ values' = FreshValues[l]
             /\ radios' = FreshRadios[l]
             /\ boxes' = <<>>
             /\ UNCHANGED <<provider, consoleLog, host, printCalls, error,
                            navigations>>

\* onClick={() => setLanguage('ar')} and onClick={() => setLanguage('en')}
Toggle ==
    \E l \in AppLanguage :
        /\ Interactive /\ steps < MaxSteps
        /\ steps' = steps + 1
        /\ SetLanguage(l)
        /\ lastCall' = l
        /\ renders' = IF language' # language
                      THEN Latest(Append(renders, Shown'))
                      ELSE renders
        /\ discarded' = IF language' # language
                        THEN discarded \cup Entered
                        ELSE discarded

\* the user types s into (or clears) a text-like control
TypeText ==
    \E n \in TypedNames :
      \E s \in Typable(n) \cup {""} :
        /\ Interactive /\ steps < MaxSteps
        /\ values[n] # s
        /\ values' = [values EXCEPT ![n] = s]
        /\ steps' = steps + 1
        /\ UNCHANGED <<provider, language, hook, mounted, boxes, radios,
                       consoleLog, host, printCalls, error, navigations,
                       lastCall, renders, discarded>>

\* the user ticks or unticks a checkbox
TickBox ==
    \E b \in TickedBoxes :
        /\ Interactive /\ steps < MaxSteps
        /\ boxes' = IF b \in Range(boxes)
                    THEN SelectSeq(boxes, LAMBDA x : x # b)
                    ELSE Append(boxes, b)
        /\ steps' = steps + 1
        /\ UNCHANGED <<provider, language, hook, mounted, values, radios,
                       consoleLog, host, printCalls, error, navigations,
                       lastCall, renders, discarded>>

CheckKeepingOthers(rd, g, o) == rd \cup {<<g, o>>}

\* the radios of one name in one form are a group: checking one of them
\* unchecks the others of that name and leaves the other groups alone
Check(rd, g, o) == {r \in rd : r[1] # g} \cup {<<g, o>>}

\* the user selects a radio
SelectRadio ==
    \E g \in SelectedGroups :
        \E o \in RadioOptions[FormLang][g] :
            /\ Interactive /\ steps < MaxSteps
            /\ <<g, o>> \notin radios
            /\ radios' = Check(radios, g, o)
            /\ steps' = steps + 1
            /\ UNCHANGED <<provider, language, hook, mounted, values, boxes,
                           consoleLog, host, printCalls, error, navigations,
                           lastCall, renders, discarded>>

\* what a submit event does outside the form: the navigation, where not
\* prevented, and the console calls of the handler
SubmitEvent ==
    /\ navigations' = IF "event.preventDefault" \in Range(handleSubmitCalls)
                      THEN navigations ELSE navigations + 1
    /\ consoleLog' =
           consoleLog
           \o [i \in 1..Len(SelectSeq(handleSubmitCalls,
                                      LAMBDA c : c = "console.log")) |->
                  handleSubmit(FormLang, values, boxes, radios)]

SubmitAndReset ==
    /\ consoleLog' = Append(consoleLog,
                            handleSubmit(FormLang, values, boxes, radios))
    /\ language' = InitialLanguage
    /\ UNCHANGED <<provider, hook, mounted, values, boxes, radios, host,
                   printCalls, error, navigations>>

SubmitAndClear ==
    /\ SubmitEvent
    /\ values' = FreshValues[FormLang]
    /\ radios' = FreshRadios[FormLang]
    /\ boxes' = <<>>
    /\ UNCHANGED <<provider, language, hook, mounted, host, printCalls, error>>

\* onSubmit={handleSubmit}: the event's default action, the navigation of a
\* form submission, takes place unless the handler prevented it; every
\* console.log of the handler reports the record; it writes nothing else
SubmitHandler ==
    /\ UNCHANGED <<provider, language, hook, mounted, values, boxes, radios,
                   host, printCalls, error>>
    /\ SubmitEvent

\* a submit event arrives at the form: dispatched to it, or fired by a
\* submission that was requested and passed the validation of the controls
Submit ==
    /\ Interactive /\ steps < MaxSteps
    /\ steps' = steps + 1
    /\ UNCHANGED <<lastCall, renders, discarded>>
    /\ SubmitHandler

\* form.requestSubmit() while a control fails its constraints: the
\* submission stops at the validation, no submit event is fired
RejectSubmit ==
    /\ Interactive /\ steps < MaxSteps
    /\ Invalid(FormLang, values) # {}
    /\ steps' = steps + 1
    /\ UNCHANGED <<appVars, lastCall, renders, discarded>>

\* handlePrintAsPdf runs; an error thrown by a handler is uncaught
PrintHandler ==
    LET r == handlePrintAsPdf(host)
    IN  /\ printCalls' = printCalls + r.calls
        /\ error' = IF r.error # NoError THEN r.error ELSE error
        /\ UNCHANGED <<provider, language, hook, mounted, values, boxes,
                       radios, host>>

PdfButtonDefaultType == [type |-> "submit", onClick |-> "handlePrintAsPdf"]

\* <button type="button" onClick={handlePrintAsPdf}>
PdfButton == [type |-> "button", onClick |-> "handlePrintAsPdf"]

\* the buttons inside <form>
FormButtons == <<PdfButton>>

\* the activation behaviour of a button inside a form: one of type submit
\* requests the submission of the form, one of type button does nothing
Activate(b) ==
    IF b.type = "submit" /\ Interactive /\ Invalid(FormLang, values) = {}
    THEN SubmitEvent
    ELSE UNCHANGED <<consoleLog, navigations>>

\* the button is pressed: onClick={handlePrintAsPdf} runs, then the
\* activation behaviour of the button
PrintAsPdf ==
    /\ HasForm /\ steps < MaxSteps
    /\ steps' = steps + 1
    /\ UNCHANGED <<lastCall, renders, discarded>>
    /\ PrintHandler
    /\ Activate(FormButtons[1])

Next ==
    \/ Toggle \/ TypeText \/ TickBox \/ SelectRadio
    \/ Submit \/ RejectSubmit \/ PrintAsPdf

Spec == Init /\ [][Next]_vars

SpecHook == InitHook /\ [][Next]_vars

----------------------------------------------------------------------------
(* Properties. *)

\* the record the submit of this step reported
Reported == consoleLog'[Len(consoleLog')].data

\* no control of the mounted form holds anything
FormEmpty ==
    /\ values = FreshValues[FormLang]
    /\ boxes = <<>>
    /\ radios = FreshRadios[FormLang]

\* the option strings ticked under a checkbox name, in the order ticked
TickedOrder(g) ==
    LET mine == SelectSeq(boxes, LAMBDA b : b[1] = g)
    IN  [i \in 1..Len(mine) |-> mine[i][2]]

\* the values a record holds under a key: an entry value is one string
Held(rec, k) == IF k \in DOMAIN rec THEN <<rec[k]>> ELSE <<>>

\* the names of the ticked checkboxes and of the selected radio groups
ChosenNames ==
    {b[1] : b \in Range(boxes)} \cup {r[1] : r \in radios}

\* C1: after any sequence of setLanguage calls from the two toggle buttons
\* the active language is the argument of the latest call, and it is 'ar'
\* when no call was made.
C1_LastCallWins ==
    language = IF lastCall = NoCall THEN "ar" ELSE lastCall

C1_Witness == lastCall = "en" /\ language = "en" /\ Len(renders) = 3

\* C2: exactly one form variant is mounted in every state, the Arabic one
\* iff language = 'ar' and the English one iff language = 'en'.
C2_ExactlyOneForm ==
    /\ Cardinality(mounted) = 1
    /\ Variant.ar \in mounted <=> language = "ar"
    /\ Variant.en \in mounted <=> language = "en"

C2_Witness == language = "en" /\ mounted = {Variant.en} /\ Len(renders) > 1

\* C3 (as claimed): on submit, a checkbox name with several ticked boxes has
\* a multi-valued entry in the record, holding every ticked option string in
\* the order the boxes were ticked.
C3_MultiValued ==
    [][Submit =>
          \A g \in Range(CheckboxGroups) :
              Len(TickedOrder(g)) > 1 => Held(Reported, g) = TickedOrder(g)]_vars

\* C4 (as claimed): with only text fields filled, the keys of the submitted
\* record are exactly the names of the filled fields, each with the string
\* entered.
C4_KeysAreFilledNames ==
    [][(Submit /\ boxes = <<>> /\ radios = FreshRadios[FormLang]) =>
          /\ DOMAIN Reported = {n \in DOMAIN values : values[n] # ""}
          /\ \A n \in DOMAIN Reported : Reported[n] = values[n]]_vars

\* C4 (amended): the submitted record has a key for every text-like control
\* of the form, filled or not, and besides these only the names of the
\* ticked checkboxes and selected radios; the value of each text-like key is
\* exactly the string the control holds, the empty string when unfilled.
C4_KeysAreAllTextNames ==
    [][Submit =>
          /\ DOMAIN Reported = Range(TextNames[FormLang]) \cup ChosenNames
          /\ \A n \in Range(TextNames[FormLang]) : Reported[n] = values[n]]_vars

C4_Witness ==
    \E i \in DOMAIN consoleLog :
        /\ consoleLog[i].data["universityName"] = "Future University"
        /\ consoleLog[i].data["cityCountry"] = ""
        /\ DOMAIN consoleLog[i].data = Range(TextNames.en)

\* C5: submitting the Arabic form with every field empty raises no error and
\* reports a record whose keys, if any, all hold the default (empty) value.
C5_EmptyArabicSubmit ==
    [][(Submit /\ FormLang = "ar" /\ FormEmpty) =>
          /\ error' = error
          /\ \A k \in DOMAIN Reported : Reported[k] = ""]_vars

C5_Witness ==
    \E i \in DOMAIN consoleLog :
        /\ consoleLog[i].label = SubmitLabel.ar
        /\ DOMAIN consoleLog[i].data = Range(TextNames.ar)
        /\ \A k \in DOMAIN consoleLog[i].data : consoleLog[i].data[k] = ""
        /\ error = NoError

\* C6: useLanguage raises an error when no LanguageProvider encloses the
\* caller, and returns the provider's language value without error when one
\* does.
C6_HookContract ==
    IF provider
    THEN /\ ~hook.threw
         /\ hook.value = [defined |-> TRUE, language |-> language]
         /\ error # ProviderError
    ELSE /\ hook.threw
         /\ error = ProviderError

C6_Witness == ~provider /\ hook.threw /\ error = ProviderError /\ mounted = {}

\* C7: switching to the other language and back shows exactly the section
\* titles and field labels that were shown before the two switches.
C7_RoundTrip ==
    Len(renders) = 3 => renders[3] = renders[1]

C7_Witness ==
    /\ Len(renders) = 3
    /\ language = "ar"
    /\ renders[2] # renders[1]
    /\ renders[3] = {[titles |-> SectionTitles.ar, labels |-> FieldLabels.ar]}

\* C8: the language is 'ar' at first and always 'ar' or 'en'; only a toggle
\* button changes it: a submit and a print leave it as it is.
C8_OnlyToggleChangesLanguage ==
    /\ language = "ar"
    /\ [](language \in AppLanguage)
    /\ [][/\ language' # language => Toggle
          /\ (Submit \/ PrintAsPdf) => language' = language]_vars

C8_Witness ==
    language = "en" /\ consoleLog # <<>> /\ printCalls > 0 /\ steps = MaxSteps

\* C9 (as claimed): the print action raises no error in any host.
C9_PrintNeverRaises ==
    [][PrintAsPdf => error' = error]_vars

\* C10 (as claimed): the print action invokes the host print facility
\* exactly once when a window exists, and without a window it makes no call,
\* raises no error and changes nothing.
C10_PrintOnceIfWindow ==
    [][PrintAsPdf =>
          IF host # "no-window"
          THEN printCalls' = printCalls + 1
          ELSE UNCHANGED appVars]_vars

\* the calls through which a handler reaches the network, persistent storage
\* or another page
OutwardCalls ==
    {"fetch", "XMLHttpRequest.send", "navigator.sendBeacon",
     "localStorage.setItem", "sessionStorage.setItem", "document.cookie",
     "indexedDB.open", "location.assign", "form.submit"}

\* C11: every submit event is handled by first suppressing the default
\* navigation, then building the record, then reporting that record exactly
\* once to the console; the handler makes no network call, writes no
\* persistent storage and causes no navigation.
C11_SubmitSequence ==
    [][Submit =>
          /\ navigations' = navigations
          /\ \E i, j, k \in DOMAIN handleSubmitCalls :
                 /\ i = 1 /\ i < j /\ j < k
                 /\ handleSubmitCalls[i] = "event.preventDefault"
                 /\ handleSubmitCalls[j] = "new FormData"
                 /\ handleSubmitCalls[k] = "console.log"
          /\ Range(handleSubmitCalls) \cap OutwardCalls = {}
          /\ Len(consoleLog') = Len(consoleLog) + 1
          /\ SubSeq(consoleLog', 1, Len(consoleLog)) = consoleLog
          /\ consoleLog'[Len(consoleLog')].label = SubmitLabel[FormLang]
          /\ DOMAIN Reported \subseteq
                 {FormControls[FormLang][i].name :
                     i \in DOMAIN FormControls[FormLang]}]_vars

C11_Witness ==
    /\ Len(consoleLog) = 2
    /\ consoleLog[1].label = SubmitLabel.ar
    /\ consoleLog[2].label = SubmitLabel.en
    /\ navigations = 0

\* the names of the YesNoGroups of the mounted form
YesNoNames ==
    {g \in Range(RadioNames[FormLang]) :
        RadioOptions[FormLang][g] = {"yes", "no"}}

\* the checked radios of a name
CheckedOf(rd, g) == {r \in rd : r[1] = g}

\* C12: for every YesNoGroup name at most one of the options 'yes' and 'no'
\* is selected in any reachable state; none is selected initially; selecting
\* an option deselects the other option of the same name and no option of
\* any other name.
C12_YesNoExclusive ==
    /\ radios = {}
    /\ [](\A g \in YesNoNames : Cardinality(CheckedOf(radios, g)) <= 1)
    /\ [][SelectRadio =>
            \E r \in radios' \ radios :
                /\ CheckedOf(radios', r[1]) = {r}
                /\ radios' \ CheckedOf(radios', r[1])
                       = radios \ CheckedOf(radios, r[1])]_vars

C12_Witness ==
    \E g \in YesNoNames :
        /\ radios = {<<g, "no">>, <<"callcenterScope", "assistant">>}
        /\ steps = 3

\* C13: when a YesNoGroup, or the callcenterScope radio pair, has no option
\* selected at submit time, the record has no key for its name; when one
\* option is selected, the record maps the name to that option's value.
C13_RadioOmittedOrValue ==
    [][Submit =>
          \A g \in Range(RadioNames[FormLang]) :
              /\ CheckedOf(radios, g) = {} => g \notin DOMAIN Reported
              /\ \A r \in CheckedOf(radios, g) :
                     g \in DOMAIN Reported /\ Reported[g] = r[2]]_vars

C13_Witness ==
    \E i \in DOMAIN consoleLog :
        \E g \in YesNoNames :
            /\ g \in DOMAIN consoleLog[i].data
            /\ consoleLog[i].data[g] = "yes"
            /\ "callcenterScope" \notin DOMAIN consoleLog[i].data
            /\ radios = {<<g, "yes">>}

\* two controls of a variant may share a name only as members of one
\* checkbox group or of one radio pair
NamesUnique ==
    [v \in AppLanguage |->
        \A i, j \in DOMAIN FormControls[v] :
            (i # j /\ FormControls[v][i].name = FormControls[v][j].name) =>
                /\ FormControls[v][i].kind = FormControls[v][j].kind
                /\ FormControls[v][i].kind \in {"checkbox", "radio"}
                /\ FormControls[v][i].value # FormControls[v][j].value]

\* C14: within the rendered form variant no two distinct fields carry the
\* same name, the members of one checkbox group or radio pair apart; this
\* covers the option-derived names dept-<x>-daily, dept-<x>-offhours,
\* lang-<x>, kb-<x> and scenario-<x>-identity against every literal name.
C14_NamesUnique ==
    /\ NamesUnique[FormLang]
    /\ \A g \in Range(RadioNames[FormLang]) :
           Cardinality(RadioOptions[FormLang][g]) = 2
    /\ DOMAIN values = Range(TextNames[FormLang])
    /\ Cardinality(DOMAIN values) = Len(TextNames[FormLang])

C14_Witness ==
    \E i \in DOMAIN consoleLog :
        /\ consoleLog[i].label = SubmitLabel.en
        /\ {"dept-" \o Depts.en[1] \o "-daily", "lang-" \o Langs.en[1],
            "otherLanguagePercent", "kb-files-count"}
               \subseteq DOMAIN consoleLog[i].data
        /\ Cardinality(DOMAIN consoleLog[i].data) = Len(TextNames.en)

\* some field marked required is empty
RequiredLeftEmpty == \E n \in RequiredFields : values[n] = ""

\* C15: a submit with any or all of the fields marked required left empty
\* is handled like any other submit: the handler runs, produces a record
\* and reports it, and no error state is entered; no submission is stopped
\* on account of a required field.
C15_RequiredDecorative ==
    /\ [](HasForm => Invalid(FormLang, values) \cap RequiredFields = {})
    /\ [][(Submit /\ RequiredLeftEmpty) =>
            /\ Len(consoleLog') = Len(consoleLog) + 1
            /\ \A n \in RequiredFields :
                   n \in DOMAIN Reported /\ Reported[n] = values[n]
            /\ error' = error]_vars

C15_Witness ==
    \E i \in DOMAIN consoleLog :
        /\ consoleLog[i].label = SubmitLabel[FormLang]
        /\ \A n \in RequiredFields : consoleLog[i].data[n] = ""
        /\ consoleLog[i].data[PercentNames[FormLang][1]] = "50"
        /\ error = NoError

\* a submission of the form, whichever way it is made
Submission == Submit \/ RejectSubmit

\* the number fields holding a value outside their declared min/max range
OutOfRange ==
    {FormControls[FormLang][i].name :
        i \in {j \in DOMAIN FormControls[FormLang] :
                  ~InRange(FormControls[FormLang][j], values)}}

\* C16 (as claimed): a submit with a numeric field holding a value outside
\* its declared min/max range is silently accepted: the handler runs and the
\* record holds the out-of-range value under that field's name.
C16_OutOfRangeAccepted ==
    [][(Submission /\ OutOfRange # {}) =>
          /\ Len(consoleLog') = Len(consoleLog) + 1
          /\ \A n \in OutOfRange : Reported[n] = values[n]]_vars

\* the names of the fields the mounted form renders
RenderedFields ==
    {FormControls[FormLang][i].name : i \in DOMAIN FormControls[FormLang]}

\* C17 (as claimed): no field value affects which fields are rendered or
\* whether a submit is accepted: the rendered fields of a variant are the
\* same in every state, and a submit is accepted whatever the combination
\* of values, including language percentages that do not sum to 100.
C17_ValuesNeverMatter ==
    /\ [](HasForm =>
             DOMAIN values \cup {b[1] : b \in Range(boxes)}
                 \cup {r[1] : r \in radios} \subseteq RenderedFields)
    /\ [][Submission =>
            /\ Len(consoleLog') = Len(consoleLog) + 1
            /\ \A n \in DOMAIN values : Reported[n] = values[n]]_vars

\* C18: in every reachable state the language-dependent content agrees with
\* the language: exactly one toggle button is highlighted, the one of the
\* active language; the page heading is in the active language; the mounted
\* form has direction rtl when language = 'ar' and ltr when language = 'en'.
C18_ContentFollowsLanguage ==
    /\ Page.highlighted = {language}
    /\ Page.heading = Heading[language]
    /\ Page.dirs = {IF language = "ar" THEN "rtl" ELSE "ltr"}

C18_Witness ==
    /\ language = "en" /\ lastCall = "en" /\ steps = 3
    /\ Page = [highlighted |-> {"en"}, heading |-> Heading.en,
               dirs |-> {"ltr"}]
    /\ consoleLog # <<>>

\* the field kinds of a section, in document order
Kinds(section) == [i \in DOMAIN section |-> section[i].kind]

\* the six enumerated categories
OptionLists == <<Goals, Depts, Langs, Channels, Scenarios, KbItems>>

CurrentValues(k) ==
    (IF k \in DOMAIN values THEN {values[k]} ELSE {})
    \cup {b[2] : b \in {c \in Range(boxes) : c[1] = k}}
    \cup {r[2] : r \in CheckedOf(radios, k)}

\* C20: each submission record is built afresh from the form's state at
\* that submit: every key of the record is the name of a control that
\* contributes at that moment and every value is one such a control holds
\* then, so nothing of an earlier record comes back in a later one; the
\* earlier reports stay as they were.
C20_RecordBuiltAfresh ==
    [][Submit =>
          /\ \A k \in DOMAIN Reported : Reported[k] \in CurrentValues(k)
          /\ SubSeq(consoleLog', 1, Len(consoleLog)) = consoleLog]_vars

C20_Witness ==
    /\ Len(consoleLog) = 2
    /\ consoleLog[1].label = consoleLog[2].label
    /\ consoleLog[1].data["universityName"] = ""
    /\ consoleLog[2].data["universityName"] = "Future University"

\* the state of the program but for the uncaught error it last raised
Effects == <<provider, language, hook, mounted, values, boxes, radios,
             consoleLog, host, printCalls, navigations>>

\* C21: no operation stops half way: a toggle leaves either the state before
\* it or the other language with its form mounted afresh, a submit leaves
\* the whole record logged and nothing else touched, a print leaves either
\* the state before it or exactly one invocation of the host print facility.
C21_NoPartialEffect ==
    [][/\ Toggle =>
            \/ UNCHANGED appVars
            \/ /\ language' # language
               /\ language' = lastCall'
               /\ hook'.value.language = language'
               /\ mounted' = {Variant[language']}
               /\ values' = FreshValues[language']
               /\ boxes' = <<>>
               /\ radios' = {}
               /\ UNCHANGED <<provider, consoleLog, host, printCalls, error,
                              navigations>>
       /\ Submit =>
            /\ UNCHANGED <<provider, language, hook, mounted, values, boxes,
                           radios, host, printCalls, error, navigations>>
            /\ Len(consoleLog') = Len(consoleLog) + 1
            /\ SubSeq(consoleLog', 1, Len(consoleLog)) = consoleLog
            /\ DOMAIN Reported \ ChosenNames = Range(TextNames[FormLang])
            /\ ChosenNames \subseteq DOMAIN Reported
       /\ PrintAsPdf =>
            /\ UNCHANGED <<provider, language, hook, mounted, values, boxes,
                           radios, consoleLog, host, navigations>>
            /\ printCalls' \in {printCalls, printCalls + 1}
            /\ UNCHANGED Effects \/ printCalls' = printCalls + 1]_vars

C21_Witness ==
    /\ language = "en" /\ mounted = {Variant.en}
    /\ Len(consoleLog) = 1 /\ consoleLog[1].label = SubmitLabel.en
    /\ host = "print-throws" /\ printCalls = 1 /\ error = PrintFailedError

\* the values of the ticked checkboxes named g, in the order of the document
DocumentOrder(g) ==
    LET mine == SelectSeq(Checkboxes[FormLang],
                          LAMBDA b : b[1] = g /\ b \in Range(boxes))
    IN  [i \in 1..Len(mine) |-> mine[i][2]]

\* C22: the record of a submit holds one value for a name: where the form
\* data has several entries of one name, the value of the last of them in
\* document order, and none of the values of the earlier ones.
C22_LastEntryWins ==
    [][Submit =>
          \A g \in Range(CheckboxGroups) :
              LET t == DocumentOrder(g)
              IN  Len(t) > 0 =>
                    /\ Held(Reported, g) = <<t[Len(t)]>>
                    /\ \A i \in 1..(Len(t) - 1) :
                           t[i] \notin {Reported[k] : k \in DOMAIN Reported}]_vars

\* the second goal was ticked before the first one, the record has the second
C22_Witness ==
    /\ boxes = <<Checkboxes.ar[2], Checkboxes.ar[1]>>
    /\ Len(consoleLog) = 1
    /\ consoleLog[1].data["projectGoals"] = Goals.ar[2]
    /\ Goals.ar[1] \notin {consoleLog[1].data[k] : k \in DOMAIN consoleLog[1].data}

\* C23: what was entered in a form does not survive a change of language:
\* every switch unmounts the form with all it held and mounts the form of
\* the other language with every control empty and unselected, so nothing
\* entered shows in the other variant nor in the first one after switching
\* back.
C23_ValuesLostOnSwitch ==
    [][Toggle /\ language' # language =>
          /\ mounted' = {Variant[language']}
          /\ FormEmpty'
          /\ Entered' = {}
          /\ discarded' = discarded \cup Entered]_vars

\* a name typed into the Arabic form, then to English and back to Arabic
C23_Witness ==
    /\ steps = 3 /\ Len(renders) = 3
    /\ language = "ar" /\ mounted = {Variant.ar}
    /\ discarded = {<<"universityName", "Future University">>}
    /\ values["universityName"] = ""

\* the checkbox names with no box ticked and the radio names with no radio
\* checked
Unchosen ==
    {g \in Range(CheckboxGroups) : \A b \in Range(boxes) : b[1] # g}
    \cup {g \in Range(RadioNames[FormLang]) : \A r \in radios : r[1] # g}

\* C24: every named text, number, date, tel, email and textarea control has
\* its name as a key of the record of every submit, with the empty string
\* when the control is empty; the only names of the form missing from the
\* record are those of checkboxes with none ticked and of radio groups with
\* none selected.
C24_EmptyControlsContribute ==
    [][Submit =>
          /\ \A k \in TextKinds :
               \A c \in Range(OfKind(FormLang, {k})) :
                   /\ c.name \in DOMAIN Reported
                   /\ values[c.name] = "" => Reported[c.name] = ""
          /\ RenderedFields \ DOMAIN Reported = Unchosen]_vars

\* an English record with an empty control of each kind and no checkbox key
C24_Witness ==
    /\ Len(consoleLog) = 1
    /\ consoleLog[1].label = SubmitLabel.en
    /\ \A k \in TextKinds :
         \E c \in Range(OfKind("en", {k})) : consoleLog[1].data[c.name] = ""
    /\ "projectGoals" \notin DOMAIN consoleLog[1].data
    /\ "security-api" \notin DOMAIN consoleLog[1].data
    /\ boxes = <<>> /\ radios = {}

\* the names the forms derive from their option lists
OptionNames ==
    [v \in AppLanguage |->
        {"dept-" \o d \o "-daily" : d \in Range(Depts[v])}
        \cup {"dept-" \o d \o "-offhours" : d \in Range(Depts[v])}
        \cup {"lang-" \o l : l \in Range(Langs[v])}
        \cup {"kb-" \o k : k \in Range(KbItems[v])}
        \cup {"scenario-" \o s \o "-identity" : s \in Range(Scenarios[v])}]

\* the option-derived names of the one option text the variants share
SharedOptionNames == {"dept-IT-daily", "dept-IT-offhours"}

\* C25: the variants do not report the same keys: control by control the
\* literal names are the same in both, the names derived from an option
\* differ except those of department IT, every checkbox value differs, and
\* so an Arabic and an English record never have the same keys.
C25_KeysDifferByVariant ==
    /\ \A v \in AppLanguage :
         OptionNames[v] \subseteq Range(TextNames[v]) \cup Range(RadioNames[v])
    /\ OptionNames.ar \cap OptionNames.en = SharedOptionNames
    /\ \A i \in DOMAIN FormControls.ar :
         LET a == FormControls.ar[i]
             e == FormControls.en[i]
         IN  /\ a.name = e.name <=>
                   a.name \notin OptionNames.ar \ SharedOptionNames
             /\ a.kind = "checkbox" => a.value # e.value
    /\ \A i, j \in DOMAIN consoleLog :
         consoleLog[i].label # consoleLog[j].label =>
             DOMAIN consoleLog[i].data # DOMAIN consoleLog[j].data

\* the same answers (none) in both variants: the records share the literal
\* names and those of department IT and differ in the other derived names
C25_Witness ==
    /\ Len(consoleLog) = 2
    /\ consoleLog[1].label = SubmitLabel.ar
    /\ consoleLog[2].label = SubmitLabel.en
    /\ {"universityName", "dept-IT-daily"}
           \subseteq DOMAIN consoleLog[1].data \cap DOMAIN consoleLog[2].data
    /\ PercentNames.ar[1] \in DOMAIN consoleLog[1].data \ DOMAIN consoleLog[2].data
    /\ PercentNames.en[1] \in DOMAIN consoleLog[2].data \ DOMAIN consoleLog[1].data

\* C26: pressing the toggle button of the language that is active changes
\* nothing: the language stays, the mounted form is the same instance and
\* holds all that was entered in it.
C26_ActiveToggleIsNoOp ==
    [][Toggle /\ lastCall' = language =>
          /\ language' = language
          /\ mounted' = mounted /\ hook' = hook
          /\ values' = values /\ boxes' = boxes /\ radios' = radios
          /\ Entered' = Entered
          /\ renders' = renders /\ discarded' = discarded]_vars

\* the Arabic form holds a name, a ticked box and the Arabic button was
\* the one pressed
C26_Witness ==
    /\ steps = 3 /\ lastCall = "ar" /\ language = "ar"
    /\ Len(renders) = 1 /\ discarded = {}
    /\ values["universityName"] = "Future University"
    /\ Len(boxes) = 1

C28_SubmitKeepsForm ==
    [][Submit =>
          /\ mounted' = mounted
          /\ values' = values /\ boxes' = boxes /\ radios' = radios
          /\ Entered' = Entered
          /\ handleSubmit(FormLang', values', boxes', radios').data = Reported]_vars

\* a name typed, then two submits one after the other
C28_Witness ==
    /\ steps = 3 /\ Len(consoleLog) = 2
    /\ consoleLog[1] = consoleLog[2]
    /\ consoleLog[1].data["universityName"] = "Future University"
    /\ values["universityName"] = "Future University"

\* C29: in the tree App builds, Home is inside LanguageProvider in every
\* state: useLanguage returns the context value, the form of the active
\* language is on the page and the error of a missing provider is never
\* raised, whatever toggles, submits and prints took place.
C29_ProviderErrorUnreachable ==
    /\ provider
    /\ ~hook.threw /\ hook.value.defined
    /\ error # ProviderError
    /\ mounted = {Variant[language]}

\* a toggle, a submit and a failed print took place
C29_Witness ==
    /\ provider /\ steps = 3
    /\ lastCall = "en" /\ Len(consoleLog) = 1
    /\ host = "print-missing" /\ error = PrintMissingError
    /\ ~hook.threw

============================================================================
